---- MODULE Spec2Model ----
(***************************************************************************)
(* Credential issuance and verification, and the session lifecycle that    *)
(* gates role-scoped access, of the dealership application:                *)
(*   server/auth.ts      password codec, passport strategy, the four auth  *)
(*                       endpoints                                         *)
(*   server/storage.ts   credential store (users table) and session store  *)
(*   shared/schema.ts    insertUserSchema, loginUserSchema, users table    *)
(*   server/routes.ts    isAuthenticated / hasRole gates, sales-staff      *)
(*                       creation and removal                              *)
(***************************************************************************)
EXTENDS Integers, Sequences, FiniteSets, TLC

VARIABLES
    users,      \* rows of the users table
    nextId,     \* next AUTO_INCREMENT value of users.id
    session,    \* per browser session: passport.user kept in the session store (0: none)
    reg,        \* per browser session: the POST /api/register request in flight
    resp,       \* the response most recently sent
    codec,      \* inputs and results of a stand-alone run of the password codec
    customers,  \* rows of the customers table
    cars,       \* rows of the cars table
    orders,     \* rows of the orders table
    serial,     \* the auto-increment counters of the customers and orders tables
    job,        \* per browser session: the request to a gated handler in flight
    seed        \* position of the seed script

\* The tables and positions the authentication endpoints do not touch.
shopVars == <<customers, cars, orders, serial, job, seed>>

vars == <<users, nextId, session, reg, resp, codec, shopVars>>

(***************************************************************************)
(* Bounds and input alphabets                                              *)
(***************************************************************************)
MaxId == 2

Sessions == {"c1", "c2"}

EmailA == <<"a", "@", "x", ".", "c", "o", "m">>
EmailB == <<"b", "@", "x", ".", "c", "o", "m">>
EmailBad == <<"a", ".", "x">>

PasswordInputs == {"password123", "wrong", "hunter2hunter2", ""}
Salts == {"5a17", "c0de", "0b5e"}
\* The salt values randomBytes yields to the requests of the main specification.
RequestSalts == {"5a17"}

Roles == {"admin", "dealer", "sales"}
RoleInputs == Roles \cup {"guest", "absent"}

NoUser == 0
Undefined == "<undefined>"

(***************************************************************************)
(* shared/schema.ts: validation schemas                                    *)
(***************************************************************************)
MinUsernameLen == 3
MinPasswordLen == 8
MinLoginPasswordLen == 1

\* z.string().email(): one "@" with a non-empty local part before it and a
\* dotted domain with non-empty first and last labels after it.
IsEmail(e) ==
    \E i \in 1..Len(e) :
        /\ e[i] = "@"
        /\ \A k \in 1..Len(e) : e[k] = "@" => k = i
        /\ i > 1
        /\ i + 1 <= Len(e)
        /\ e[i + 1] # "."
        /\ e[Len(e)] # "."
        /\ \E j \in (i + 2)..(Len(e) - 1) : e[j] = "."

\* Faulty variant: parsing stops at the first field with an issue.
insertUserIssues_FirstOnly(body) ==
    IF Len(body.username) < MinUsernameLen THEN {"username"}
    ELSE IF ~IsEmail(body.email) THEN {"email"}
    ELSE IF Len(body.password) < MinPasswordLen THEN {"password"}
    ELSE IF body.role \notin Roles THEN {"role"}
    ELSE {}

\* insertUserSchema.parse: the set of fields with an issue (empty: parsed).
insertUserIssues(body) ==
    {f \in {"username", "email", "password", "role"} :
        \/ f = "username" /\ Len(body.username) < MinUsernameLen
        \/ f = "email" /\ ~IsEmail(body.email)
        \/ f = "password" /\ Len(body.password) < MinPasswordLen
        \/ f = "role" /\ body.role \notin Roles}

\* Faulty variant: the role is optional in the login schema.
loginUserIssues_RoleOptional(body) ==
    {f \in {"email", "password", "role"} :
        \/ f = "email" /\ ~IsEmail(body.email)
        \/ f = "password" /\ Len(body.password) < MinLoginPasswordLen
        \/ f = "role" /\ body.role \notin Roles \cup {"absent"}}

\* loginUserSchema.parse: the set of fields with an issue.
loginUserIssues(body) ==
    {f \in {"email", "password", "role"} :
        \/ f = "email" /\ ~IsEmail(body.email)
        \/ f = "password" /\ Len(body.password) < MinLoginPasswordLen
        \/ f = "role" /\ body.role \notin Roles}

(***************************************************************************)
(* server/auth.ts: password codec.  An encoded password is the string      *)
(* digest_hex "." salt_hex, kept as the sequence of its "."-separated      *)
(* fields (hex text holds no ".").                                         *)
(***************************************************************************)
KeyLen == 64

\* scrypt(password, salt, 64): injective in (password, salt).
Scrypt(password, salt) == password \o "|" \o salt

Digests == {Scrypt(p, s) : p \in PasswordInputs, s \in Salts}

\* buf.toString("hex")
ToHex(buf) == "hex(" \o buf \o ")"

\* Buffer.from(text, "hex"): the bytes the text encodes, none for non-hex text.
FromHex(text) ==
    IF \E b \in Digests : ToHex(b) = text
    THEN CHOOSE b \in Digests : ToHex(b) = text
    ELSE ""

ByteLen(buf) == IF buf = "" THEN 0 ELSE KeyLen

\* Faulty variant: the salt is written before the digest.
hashPassword_SaltFirst(password, salt) == <<salt, ToHex(Scrypt(password, salt))>>

hashPassword(password, salt) == <<ToHex(Scrypt(password, salt)), salt>>

\* stored.split(".")[i - 1]
Part(stored, i) == IF i <= Len(stored) THEN stored[i] ELSE Undefined

\* Faulty variant: only a missing part is caught, an empty one is not.
Falsy_UndefinedOnly(x) == x = Undefined

\* !x of a string or undefined
Falsy(x) == x = Undefined \/ x = ""

\* comparePasswords: ok is the value returned; threw is set when
\* timingSafeEqual raises on buffers of different length.
comparePasswords(supplied, stored) ==
    LET hashed == Part(stored, 1)
        salt == Part(stored, 2)
    IN  IF Falsy(hashed) \/ Falsy(salt)
        THEN [threw |-> FALSE, ok |-> FALSE]
        ELSE LET hashedBuf == FromHex(hashed)
                 suppliedBuf == Scrypt(supplied, salt)
             IN  IF ByteLen(hashedBuf) # ByteLen(suppliedBuf)
                 THEN [threw |-> TRUE, ok |-> FALSE]
                 ELSE [threw |-> FALSE, ok |-> hashedBuf = suppliedBuf]

(***************************************************************************)
(* server/storage.ts: credential store                                     *)
(***************************************************************************)
getUserByEmail(us, email) == {u \in us : u.email = email}

getUserByUsername(us, username) == {u \in us : u.username = username}

\* The columns getUser selects: every column but password.
PublicUser(u) ==
    [id |-> u.id, username |-> u.username, email |-> u.email,
     role |-> u.role, dealerId |-> u.dealerId]

getUser(us, id) == {PublicUser(u) : u \in {v \in us : v.id = id}}

\* Faulty variant: the users table has no unique index on email.
UniqueViolation_UsernameOnly(us, row) ==
    \E u \in us : u.username = row.username

\* The unique indexes email_idx and username_idx of the users table.
UniqueViolation(us, row) ==
    \E u \in us : u.email = row.email \/ u.username = row.username

\* Faulty variant: the row keeps the password of the request.
NewRow_KeepsPlaintext(id, userData, hashed) ==
    [id |-> id, username |-> userData.username, email |-> userData.email,
     password |-> <<userData.password>>, role |-> userData.role,
     dealerId |-> userData.dealerId]

\* storage.createUser / db.insert(users): the row as it is stored.
NewRow(id, userData, hashed) ==
    [id |-> id, username |-> userData.username, email |-> userData.email,
     password |-> hashed, role |-> userData.role, dealerId |-> userData.dealerId]

(***************************************************************************)
(* passport: session resolution                                            *)
(***************************************************************************)
\* Faulty variant: a session whose record is gone still resolves, to the
\* principal it was bound to.
ReqUser_Stale(us, sess, s) ==
    IF sess[s] = NoUser THEN {}
    ELSE IF getUser(us, sess[s]) # {} THEN getUser(us, sess[s])
    ELSE {[id |-> sess[s], username |-> "removed", email |-> <<>>,
           role |-> "sales", dealerId |-> NoUser]}

\* deserializeUser: req.user as a set (empty: no req.user).
ReqUser(us, sess, s) ==
    IF sess[s] = NoUser THEN {} ELSE getUser(us, sess[s])

isAuthenticated(us, sess, s) == ReqUser(us, sess, s) # {}

\* Faulty variant: serializeUser hands no id to the session.
logIn_NoId(sess, s, id) == [sess EXCEPT ![s] = NoUser]

\* req.login(user): serializeUser stores user.id as passport.user of the session.
logIn(sess, s, id) == [sess EXCEPT ![s] = id]

(***************************************************************************)
(* Responses                                                               *)
(***************************************************************************)
\* A response: body is the set holding the user object sent as JSON (empty:
\* none), recorded as its id and field names; error names what went to
\* next(err).
Response(s, op, status, message, issues, body, error) ==
    [op |-> op, status |-> status, message |-> message, issues |-> issues,
     user |-> IF body = {} THEN NoUser ELSE (CHOOSE u \in body : TRUE).id,
     fields |-> UNION {DOMAIN u : u \in body},
     error |-> error]

NoResponse == Response("c1", "none", 0, "", {}, {}, "none")

\* next(err): the request ends in the error handler; error names what was
\* passed to it.
ServerError(s, op, error) ==
    Response(s, op, 500, "", {}, {}, error)

\* The response r is sent on browser session s in answer to the request
\* whose body is in request (empty: the request has no body); authed is
\* req.isAuthenticated() of that request and principal the id of its req.user.
Reply(s, request, r) ==
    resp' = [sess |-> s, authed |-> isAuthenticated(users, session, s),
             principal |-> IF isAuthenticated(users, session, s)
                           THEN session[s] ELSE NoUser,
             request |-> request, res |-> r]

Idle == [pc |-> "idle"]

\* The seed script has not been started and has inserted no row.
SeedOff == [pc |-> "off", rows |-> 0]

\* No customer, car or order, no gated request in flight, the seed script not
\* run.
ShopEmpty ==
    /\ customers = {}
    /\ cars = {}
    /\ orders = {}
    /\ serial = [customers |-> 1, orders |-> 1]
    /\ job = [s \in Sessions |-> Idle]
    /\ seed = SeedOff

CodecIdle == [pc |-> "off"]

Init ==
    /\ users = {}
    /\ nextId = 1
    /\ session = [s \in Sessions |-> NoUser]
    /\ reg = [s \in Sessions |-> Idle]
    /\ resp = [sess |-> "c1", authed |-> FALSE, principal |-> NoUser,
             request |-> {}, res |-> NoResponse]
    /\ codec = CodecIdle
    /\ ShopEmpty

(***************************************************************************)
(* server/auth.ts: POST /api/register.  The handler awaits the store       *)
(* between its steps, so requests of different sessions interleave there.  *)
(* A browser session sends its next request once the previous one is       *)
(* answered (the guards reg[s].pc = "idle").                               *)
(***************************************************************************)
\* Faulty variant: the row is passed on whole, password column included.
WithoutPassword_KeepsHash(u) == u

\* const { password, ...userWithoutPassword } = user
WithoutPassword(u) ==
    [id |-> u.id, username |-> u.username, email |-> u.email,
     role |-> u.role, dealerId |-> u.dealerId]

InFlight == Cardinality({s \in Sessions : reg[s].pc # "idle"})

\* The ids that requests may take: MaxId of them, on top of the rows the
\* seed script has inserted.
IdCap == MaxId + seed.rows

\* Faulty variant: the username is looked up before the email.
RegisterStart_UsernameFirst(s, body, storeFails) ==
    /\ reg[s].pc = "idle"
    /\ LET issues == insertUserIssues(body)
       IN  IF issues # {}
           THEN /\ Reply(s, {body}, Response(s, "register", 400, "Validation error",
                                     issues, {}, "none"))
                /\ UNCHANGED reg
           ELSE IF storeFails
           THEN /\ Reply(s, {body}, ServerError(s, "register", "store"))
                /\ UNCHANGED reg
           ELSE IF getUserByUsername(users, body.username) # {}
           THEN /\ Reply(s, {body}, Response(s, "register", 400, "Username already exists",
                                     {}, {}, "none"))
                /\ UNCHANGED reg
           ELSE IF getUserByEmail(users, body.email) # {}
           THEN /\ Reply(s, {body}, Response(s, "register", 400, "Email already in use",
                                     {}, {}, "none"))
                /\ UNCHANGED reg
           ELSE /\ nextId + InFlight <= IdCap
                /\ reg' = [reg EXCEPT ![s] = [pc |-> "username", userData |-> body]]
                /\ UNCHANGED resp
    /\ UNCHANGED <<users, nextId, session, codec, shopVars>>

\* insertUserSchema.parse and the lookup by email.  MaxId caps the ids of the
\* registrations that go on to the insert.
RegisterStart(s, body, storeFails) ==
    /\ reg[s].pc = "idle"
    /\ LET issues == insertUserIssues(body)
       IN  IF issues # {}
           THEN /\ Reply(s, {body}, Response(s, "register", 400, "Validation error",
                                     issues, {}, "none"))
                /\ UNCHANGED reg
           ELSE IF storeFails
           THEN /\ Reply(s, {body}, ServerError(s, "register", "store"))
                /\ UNCHANGED reg
           ELSE IF getUserByEmail(users, body.email) # {}
           THEN /\ Reply(s, {body}, Response(s, "register", 400, "Email already in use",
                                     {}, {}, "none"))
                /\ UNCHANGED reg
           ELSE /\ nextId + InFlight <= IdCap
                /\ reg' = [reg EXCEPT ![s] = [pc |-> "username", userData |-> body]]
                /\ UNCHANGED resp
    /\ UNCHANGED <<users, nextId, session, codec, shopVars>>

\* Faulty variant: the handler does not look the username up.
RegisterUsername_NoLookup(s, storeFails) ==
    /\ reg[s].pc = "username"
    /\ IF storeFails
       THEN /\ Reply(s, {reg[s].userData}, ServerError(s, "register", "store"))
            /\ reg' = [reg EXCEPT ![s] = Idle]
       ELSE /\ reg' = [reg EXCEPT ![s] = [pc |-> "create",
                                           userData |-> reg[s].userData]]
            /\ UNCHANGED resp
    /\ UNCHANGED <<users, nextId, session, codec, shopVars>>

\* The lookup by username.
RegisterUsername(s, storeFails) ==
    /\ reg[s].pc = "username"
    /\ IF storeFails
       THEN /\ Reply(s, {reg[s].userData}, ServerError(s, "register", "store"))
            /\ reg' = [reg EXCEPT ![s] = Idle]
       ELSE IF getUserByUsername(users, reg[s].userData.username) # {}
       THEN /\ Reply(s, {reg[s].userData}, Response(s, "register", 400, "Username already exists",
                                 {}, {}, "none"))
            /\ reg' = [reg EXCEPT ![s] = Idle]
       ELSE /\ reg' = [reg EXCEPT ![s] = [pc |-> "create",
                                           userData |-> reg[s].userData]]
            /\ UNCHANGED resp
    /\ UNCHANGED <<users, nextId, session, codec, shopVars>>

\* Faulty variant: the duplicate is found by the insert, after hashing, and
\* answered as a conflict.
RegisterInsertError_Conflict(s, error) ==
    IF error = "unique"
    THEN Response(s, "register", 400, "Username already exists", {}, {}, "none")
    ELSE ServerError(s, "register", error)

\* What the catch block of the register handler answers to an error thrown
\* by storage.createUser.
RegisterInsertError(s, error) == ServerError(s, "register", error)

\* hashPassword, storage.createUser, req.login and the 201 response.
\* fail: "none", "store" (the insert fails), "session" (req.login fails).
RegisterCreate(s, salt, fail) ==
    /\ reg[s].pc = "create"
    /\ LET userData == reg[s].userData
           row == NewRow(nextId, userData, hashPassword(userData.password, salt))
       IN  IF fail = "store"
           THEN /\ Reply(s, {reg[s].userData}, RegisterInsertError(s, "store"))
                /\ UNCHANGED <<users, nextId, session>>
           ELSE IF UniqueViolation(users, row)
           THEN /\ Reply(s, {reg[s].userData}, RegisterInsertError(s, "unique"))
                /\ UNCHANGED <<users, nextId, session>>
           ELSE /\ users' = users \cup {row}
                /\ nextId' = nextId + 1
                /\ IF fail = "session"
                   THEN /\ Reply(s, {reg[s].userData}, ServerError(s, "register", "session"))
                        /\ UNCHANGED session
                   ELSE /\ session' = logIn(session, s, row.id)
                        /\ Reply(s, {reg[s].userData}, Response(s, "register", 201, "", {},
                                            {WithoutPassword(row)}, "none"))
    /\ reg' = [reg EXCEPT ![s] = Idle]
    /\ UNCHANGED <<codec, shopVars>>

(***************************************************************************)
(* server/auth.ts: POST /api/login                                         *)
(***************************************************************************)
\* Faulty variant: an unknown email gets a message of its own.
verify_NamesUnknownEmail(us, email, password, storeFails) ==
    LET rows == getUserByEmail(us, email)
    IN  IF storeFails
        THEN [err |-> "store", user |-> {}, message |-> ""]
        ELSE IF rows = {}
        THEN [err |-> "none", user |-> {}, message |-> "No account with this email"]
        ELSE LET user == CHOOSE u \in rows : TRUE
                 cmp == comparePasswords(password, user.password)
             IN  IF cmp.threw
                 THEN [err |-> "compare", user |-> {}, message |-> ""]
                 ELSE IF ~cmp.ok
                 THEN [err |-> "none", user |-> {},
                       message |-> "Invalid email or password"]
                 ELSE [err |-> "none", user |-> {WithoutPassword(user)},
                       message |-> ""]

\* The LocalStrategy verify callback: what it hands to done().
verify(us, email, password, storeFails) ==
    LET rows == getUserByEmail(us, email)
    IN  IF storeFails
        THEN [err |-> "store", user |-> {}, message |-> ""]
        ELSE IF rows = {}
        THEN [err |-> "none", user |-> {}, message |-> "Invalid email or password"]
        ELSE LET user == CHOOSE u \in rows : TRUE
                 cmp == comparePasswords(password, user.password)
             IN  IF cmp.threw
                 THEN [err |-> "compare", user |-> {}, message |-> ""]
                 ELSE IF ~cmp.ok
                 THEN [err |-> "none", user |-> {},
                       message |-> "Invalid email or password"]
                 ELSE [err |-> "none", user |-> {WithoutPassword(user)},
                       message |-> ""]

\* Faulty variant: the claimed role is not compared with the stored one.
LoginResponse_NoRoleCheck(us, s, body, fail) ==
    LET issues == loginUserIssues(body)
        v == verify(us, body.email, body.password, fail = "store")
    IN  IF issues # {}
        THEN Response(s, "login", 400, "Validation error", issues, {}, "none")
        ELSE IF v.err # "none"
        THEN ServerError(s, "login", v.err)
        ELSE IF v.user = {}
        THEN Response(s, "login", 401,
                      IF v.message # "" THEN v.message ELSE "Invalid credentials",
                      {}, {}, "none")
        ELSE IF fail = "session"
        THEN ServerError(s, "login", "session")
        ELSE Response(s, "login", 200, "", {}, v.user, "none")

\* Faulty variant: the claimed role is compared with the stored one before
\* the password is verified.
LoginResponse_RoleFirst(us, s, body, fail) ==
    LET issues == loginUserIssues(body)
        rows == getUserByEmail(us, body.email)
        v == verify(us, body.email, body.password, fail = "store")
    IN  IF issues # {}
        THEN Response(s, "login", 400, "Validation error", issues, {}, "none")
        ELSE IF fail # "store" /\ rows # {} /\ (CHOOSE u \in rows : TRUE).role # body.role
        THEN Response(s, "login", 403, "Invalid role for this user", {}, {}, "none")
        ELSE IF v.err # "none"
        THEN ServerError(s, "login", v.err)
        ELSE IF v.user = {}
        THEN Response(s, "login", 401,
                      IF v.message # "" THEN v.message ELSE "Invalid credentials",
                      {}, {}, "none")
        ELSE IF fail = "session"
        THEN ServerError(s, "login", "session")
        ELSE Response(s, "login", 200, "", {}, v.user, "none")

\* Faulty variant: an error of req.login is dropped and the user is answered.
LoginResponse_DropsSessionError(us, s, body, fail) ==
    LET issues == loginUserIssues(body)
        v == verify(us, body.email, body.password, fail = "store")
    IN  IF issues # {}
        THEN Response(s, "login", 400, "Validation error", issues, {}, "none")
        ELSE IF v.err # "none"
        THEN ServerError(s, "login", v.err)
        ELSE IF v.user = {}
        THEN Response(s, "login", 401,
                      IF v.message # "" THEN v.message ELSE "Invalid credentials",
                      {}, {}, "none")
        ELSE LET user == CHOOSE u \in v.user : TRUE
             IN  IF user.role # body.role
                 THEN Response(s, "login", 403, "Invalid role for this user",
                               {}, {}, "none")
                 ELSE Response(s, "login", 200, "", {}, {user}, "none")

\* The response of POST /api/login; status 200 is the one that binds the session.
\* fail: "none", "store" (the lookup fails), "session" (req.login fails).
LoginResponse(us, s, body, fail) ==
    LET issues == loginUserIssues(body)
        v == verify(us, body.email, body.password, fail = "store")
    IN  IF issues # {}
        THEN Response(s, "login", 400, "Validation error", issues, {}, "none")
        ELSE IF v.err # "none"
        THEN ServerError(s, "login", v.err)
        ELSE IF v.user = {}
        THEN Response(s, "login", 401,
                      IF v.message # "" THEN v.message ELSE "Invalid credentials",
                      {}, {}, "none")
        ELSE LET user == CHOOSE u \in v.user : TRUE
             IN  IF user.role # body.role
                 THEN Response(s, "login", 403, "Invalid role for this user",
                               {}, {}, "none")
                 ELSE IF fail = "session"
                 THEN ServerError(s, "login", "session")
                 ELSE Response(s, "login", 200, "", {}, {user}, "none")

\* Faulty variant: a login that is refused drops the binding of the session.
LoginSession_DropsOnRefusal(sess, s, r) ==
    IF r.status = 200 THEN logIn(sess, s, r.user) ELSE [sess EXCEPT ![s] = NoUser]

\* Faulty variant: req.login leaves a session that is already bound as it is.
LoginSession_KeepFirst(sess, s, r) ==
    IF r.status = 200 /\ sess[s] = NoUser THEN logIn(sess, s, r.user) ELSE sess

\* The session after the login request answered r: req.login is reached
\* only on the path that answers 200.
LoginSession(sess, s, r) ==
    IF r.status = 200 THEN logIn(sess, s, r.user) ELSE sess

Login(s, body, fail) ==
    /\ reg[s].pc = "idle"
    /\ LET r == LoginResponse(users, s, body, fail)
       IN  /\ Reply(s, {body}, r)
           /\ session' = LoginSession(session, s, r)
    /\ UNCHANGED <<users, nextId, reg, codec, shopVars>>

(***************************************************************************)
(* server/auth.ts: POST /api/logout and GET /api/user                      *)
(***************************************************************************)
\* Faulty variant: logout is refused on a request that is not authenticated.
LogoutResponse_RequiresAuth(s, sessionFails) ==
    IF sessionFails
    THEN ServerError(s, "logout", "session")
    ELSE IF ~isAuthenticated(users, session, s)
    THEN Response(s, "logout", 401, "Not authenticated", {}, {}, "none")
    ELSE Response(s, "logout", 200, "", {}, {}, "none")

LogoutResponse(s, sessionFails) ==
    IF sessionFails
    THEN ServerError(s, "logout", "session")
    ELSE Response(s, "logout", 200, "", {}, {}, "none")

\* Faulty variant: logout answers without removing passport.user.
LogoutSession_Keep(sess, s, sessionFails) == sess

\* Faulty variant: logout clears passport.user of every session.
LogoutSession_All(sess, s, sessionFails) ==
    IF sessionFails THEN sess ELSE [c \in Sessions |-> NoUser]

\* req.logout: passport.user is removed from the session.
LogoutSession(sess, s, sessionFails) ==
    IF sessionFails THEN sess ELSE [sess EXCEPT ![s] = NoUser]

Logout(s, sessionFails) ==
    /\ reg[s].pc = "idle"
    /\ Reply(s, {}, LogoutResponse(s, sessionFails))
    /\ session' = LogoutSession(session, s, sessionFails)
    /\ UNCHANGED <<users, nextId, reg, codec, shopVars>>

\* Faulty variant: a request with no req.user goes to the error handler.
currentUser_ErrorsWithoutUser(us, sess, s) ==
    IF ~isAuthenticated(us, sess, s)
    THEN ServerError(s, "user", "session")
    ELSE Response(s, "user", 200, "", {}, ReqUser(us, sess, s), "none")

\* The response of GET /api/user.
currentUser(us, sess, s) ==
    IF ~isAuthenticated(us, sess, s)
    THEN Response(s, "user", 401, "Not authenticated", {}, {}, "none")
    ELSE Response(s, "user", 200, "", {}, ReqUser(us, sess, s), "none")

GetUser(s) ==
    /\ reg[s].pc = "idle"
    /\ Reply(s, {}, currentUser(users, session, s))
    /\ UNCHANGED <<users, nextId, session, reg, codec, shopVars>>

(***************************************************************************)
(* server/routes.ts: role gates and the dealer's sales-staff endpoints      *)
(***************************************************************************)
MaxSalesStaff == 5

\* Faulty variant: the role of req.user is not compared.
Gate_AuthOnly(us, sess, s, role) ==
    IF ~isAuthenticated(us, sess, s) THEN 401 ELSE 0

\* isAuthenticated followed by hasRole(role): 401, 403 or 0 (the handler runs).
Gate(us, sess, s, role) ==
    IF ~isAuthenticated(us, sess, s) THEN 401
    ELSE IF (CHOOSE u \in ReqUser(us, sess, s) : TRUE).role # role THEN 403
    ELSE 0

GateResponse(s, op, status) ==
    Response(s, op, status,
             IF status = 401 THEN "Not authenticated" ELSE "Access denied",
             {}, {}, "none")

\* GET /api/admin/dashboard, /api/dealer/dashboard, /api/sales/dashboard:
\* the handler behind the gate of its role answers 200 and writes nothing.
Dashboard(s, role) ==
    /\ reg[s].pc = "idle"
    /\ LET gate == Gate(users, session, s, role)
       IN  IF gate # 0
           THEN Reply(s, {}, GateResponse(s, "dashboard", gate))
           ELSE Reply(s, {}, Response(s, "dashboard", 200, "", {}, {}, "none"))
    /\ UNCHANGED <<users, nextId, session, reg, codec, shopVars>>

SalesStaffOf(us, dealerId) ==
    {u \in us : u.role = "sales" /\ u.dealerId = dealerId}

\* Faulty variant: the role of the body, when it carries one, wins.
StaffUserData_BodyWins(body, dealerId) ==
    [username |-> body.username, email |-> body.email,
     password |-> body.password,
     role |-> IF body.role # "absent" THEN body.role ELSE "sales",
     dealerId |-> dealerId]

\* { ...req.body, role: "sales", dealerId }: the role and the dealer of the
\* body are overwritten.
StaffUserData(body, dealerId) ==
    [username |-> body.username, email |-> body.email,
     password |-> body.password, role |-> "sales", dealerId |-> dealerId]

\* POST /api/dealer/sales-staff, run with no other request between its awaits
AddSalesStaff(s, body, salt) ==
    /\ reg[s].pc = "idle"
    /\ nextId + InFlight <= IdCap
    /\ LET gate == Gate(users, session, s, "dealer")
           dealerId == session[s]
           userData == StaffUserData(body, dealerId)
           row == NewRow(nextId, userData, hashPassword(userData.password, salt))
       IN  IF gate # 0
           THEN /\ Reply(s, {body}, GateResponse(s, "addStaff", gate))
                /\ UNCHANGED <<users, nextId>>
           ELSE IF Cardinality(SalesStaffOf(users, dealerId)) >= MaxSalesStaff
           THEN /\ Reply(s, {body}, Response(s, "addStaff", 400,
                                     "Cannot add more sales staff. Maximum of 5 sales persons per dealer allowed.",
                                     {}, {}, "none"))
                /\ UNCHANGED <<users, nextId>>
           ELSE IF insertUserIssues(userData) # {} \/ UniqueViolation(users, row)
           THEN /\ Reply(s, {body}, Response(s, "addStaff", 400, "Error adding sales person",
                                     insertUserIssues(userData), {}, "none"))
                /\ UNCHANGED <<users, nextId>>
           ELSE /\ users' = users \cup {row}
                /\ nextId' = nextId + 1
                /\ Reply(s, {body}, Response(s, "addStaff", 201, "", {},
                                    {[id |-> row.id, username |-> row.username,
                                      email |-> row.email, role |-> row.role]},
                                    "none"))
    /\ UNCHANGED <<session, reg, codec, shopVars>>

\* DELETE /api/dealer/sales-staff/:id
DeleteSalesStaff(s, id) ==
    /\ reg[s].pc = "idle"
    /\ LET gate == Gate(users, session, s, "dealer")
           salesPerson == {u \in SalesStaffOf(users, session[s]) : u.id = id}
       IN  IF gate # 0
           THEN /\ Reply(s, {[id |-> id]}, GateResponse(s, "removeStaff", gate))
                /\ UNCHANGED users
           ELSE IF salesPerson = {}
           THEN /\ Reply(s, {[id |-> id]}, Response(s, "removeStaff", 404, "Sales person not found",
                                     {}, {}, "none"))
                /\ UNCHANGED users
           ELSE /\ users' = {u \in users : u.id # id}
                /\ Reply(s, {[id |-> id]}, Response(s, "removeStaff", 200,
                                    "Sales person removed successfully", {}, {}, "none"))
    /\ UNCHANGED <<nextId, session, reg, codec, shopVars>>

(***************************************************************************)
(* POST /api/dealer/sales-staff as its awaited statements: the count query  *)
(* and the insert are separate statements on the pool, with no transaction  *)
(* around them, so other requests run between them.                         *)
(***************************************************************************)
StaffMaxId == 7

StaffInFlight == Cardinality({s \in Sessions : job[s].pc # "idle"})

\* The gates, the count query and the comparison with the limit.
StaffAddCount(s, body) ==
    /\ job[s].pc = "idle"
    /\ LET gate == Gate(users, session, s, "dealer")
           dealerId == session[s]
       IN  IF gate # 0
           THEN /\ Reply(s, {body}, GateResponse(s, "addStaff", gate))
                /\ UNCHANGED job
           ELSE IF Cardinality(SalesStaffOf(users, dealerId)) >= MaxSalesStaff
           THEN /\ Reply(s, {body}, Response(s, "addStaff", 400,
                                     "Cannot add more sales staff. Maximum of 5 sales persons per dealer allowed.",
                                     {}, {}, "none"))
                /\ UNCHANGED job
           ELSE /\ nextId + StaffInFlight <= StaffMaxId
                /\ job' = [job EXCEPT ![s] = [pc |-> "insert", body |-> body,
                                               dealerId |-> dealerId]]
                /\ UNCHANGED resp
    /\ UNCHANGED <<users, nextId, session, reg, codec, customers, cars, orders, serial, seed>>

\* insertUserSchema.parse, hashPassword, the insert and the 201 response.
StaffAddInsert(s, salt) ==
    /\ job[s].pc = "insert"
    /\ LET body == job[s].body
           userData == StaffUserData(body, job[s].dealerId)
           row == NewRow(nextId, userData, hashPassword(userData.password, salt))
       IN  IF insertUserIssues(userData) # {} \/ UniqueViolation(users, row)
           THEN /\ Reply(s, {body}, Response(s, "addStaff", 400, "Error adding sales person",
                                     insertUserIssues(userData), {}, "none"))
                /\ UNCHANGED <<users, nextId>>
           ELSE /\ users' = users \cup {row}
                /\ nextId' = nextId + 1
                /\ Reply(s, {body}, Response(s, "addStaff", 201, "", {},
                                    {[id |-> row.id, username |-> row.username,
                                      email |-> row.email, role |-> row.role]},
                                    "none"))
    /\ job' = [job EXCEPT ![s] = Idle]
    /\ UNCHANGED <<session, reg, codec, customers, cars, orders, serial, seed>>

(***************************************************************************)
(* server/routes.ts: the sales person's customer and order endpoints.  A    *)
(* handler captures req.user when the request enters it; each awaited       *)
(* statement is a step, and other requests run between the steps.           *)
(***************************************************************************)
MaxCustomerId == 3
MaxOrderId == 2

\* The cars of the inventory.
CarIds == {1, 2}

MinNameLen == 2

\* The response r of a handler that captured the principal me.
ShopReply(s, me, request, r) ==
    resp' = [sess |-> s, authed |-> me # NoUser, principal |-> me,
             request |-> request, res |-> r]

\* The response of a handler of session s that failed the gates of the role
\* sales.
ShopGate(s, op, request) ==
    /\ Reply(s, request, GateResponse(s, op, Gate(users, session, s, "sales")))
    /\ UNCHANGED <<customers, cars, orders, serial, job>>

\* Faulty variant: the row is selected by its id alone.
OwnRows_AnyOwner(rows, id, me) == {r \in rows : r.id = id}

\* SELECT ... WHERE id = :id AND sales_person_id = :me
OwnRows(rows, id, me) == {r \in rows : r.id = id /\ r.salesPersonId = me}

\* insertCustomerSchema
insertCustomerIssues(data) ==
    {f \in {"firstName", "email"} :
        \/ f = "firstName" /\ Len(data.firstName) < MinNameLen
        \/ f = "email" /\ ~IsEmail(data.email)}

\* { ...req.body, salesPersonId: req.user.id }
CustomerData(body, me) == [body EXCEPT !.salesPersonId = me]

\* The unique index customer_email_idx, for the row of id with the email.
CustomerEmailTaken(rows, id, email) ==
    \E c \in rows : c.id # id /\ c.email = email

\* GET /api/customers/:id
GetCustomer(s, id) ==
    /\ job[s].pc = "idle"
    /\ IF Gate(users, session, s, "sales") # 0
       THEN ShopGate(s, "getCustomer", {[id |-> id]})
       ELSE LET me == session[s]
                customer == OwnRows(customers, id, me)
            IN  /\ IF customer = {}
                   THEN ShopReply(s, me, {[id |-> id]},
                                  Response(s, "getCustomer", 404, "Customer not found",
                                           {}, {}, "none"))
                   ELSE ShopReply(s, me, {[id |-> id]},
                                  Response(s, "getCustomer", 200, "", {}, customer, "none"))
                /\ UNCHANGED <<customers, cars, orders, serial, job>>
    /\ UNCHANGED <<users, nextId, session, reg, codec, seed>>

\* POST /api/customers
CreateCustomer(s, body) ==
    /\ job[s].pc = "idle"
    /\ IF Gate(users, session, s, "sales") # 0
       THEN ShopGate(s, "createCustomer", {body})
       ELSE LET me == session[s]
                customerData == CustomerData(body, me)
                row == [id |-> serial.customers,
                        salesPersonId |-> customerData.salesPersonId,
                        firstName |-> customerData.firstName,
                        email |-> customerData.email]
            IN  /\ IF \/ insertCustomerIssues(customerData) # {}
                      \/ CustomerEmailTaken(customers, row.id, row.email)
                      \/ getUser(users, row.salesPersonId) = {}
                   THEN /\ ShopReply(s, me, {body},
                                     Response(s, "createCustomer", 400,
                                              "Error creating customer",
                                              insertCustomerIssues(customerData),
                                              {}, "none"))
                        /\ UNCHANGED <<customers, serial>>
                   ELSE /\ serial.customers <= MaxCustomerId
                        /\ customers' = customers \cup {row}
                        /\ serial' = [serial EXCEPT !.customers = @ + 1]
                        /\ ShopReply(s, me, {body},
                                     Response(s, "createCustomer", 201, "", {},
                                              {row}, "none"))
                /\ UNCHANGED <<cars, orders, job>>
    /\ UNCHANGED <<users, nextId, session, reg, codec, seed>>

\* PUT and DELETE /api/customers/:id, PATCH /api/orders/:id: the select that
\* verifies that the row belongs to the caller.
OwnerCheck(s, op, table, id, body, notFound) ==
    /\ job[s].pc = "idle"
    /\ IF Gate(users, session, s, "sales") # 0
       THEN ShopGate(s, op, {[id |-> id, body |-> body]})
       ELSE LET me == session[s]
            IN  /\ IF OwnRows(table, id, me) = {}
                   THEN /\ ShopReply(s, me, {[id |-> id, body |-> body]},
                                     Response(s, op, 404, notFound, {}, {}, "none"))
                        /\ UNCHANGED job
                   ELSE /\ job' = [job EXCEPT ![s] = [pc |-> op, me |-> me,
                                                      id |-> id, body |-> body]]
                        /\ UNCHANGED resp
                /\ UNCHANGED <<customers, cars, orders, serial>>
    /\ UNCHANGED <<users, nextId, session, reg, codec, seed>>

UpdateCustomerCheck(s, id, body) ==
    OwnerCheck(s, "updateCustomer", customers, id, body, "Customer not found")

\* UPDATE customers SET ... WHERE id = :id, answered with the updated row.
UpdateCustomerWrite(s) ==
    /\ job[s].pc = "updateCustomer"
    /\ LET id == job[s].id
           body == job[s].body
           updated == {[c EXCEPT !.firstName = body.firstName, !.email = body.email] :
                          c \in {x \in customers : x.id = id}}
       IN  IF CustomerEmailTaken(customers, id, body.email)
           THEN /\ ShopReply(s, job[s].me, {[id |-> id, body |-> body]},
                             Response(s, "updateCustomer", 400, "Error updating customer",
                                      {}, {}, "none"))
                /\ UNCHANGED customers
           ELSE /\ customers' = {c \in customers : c.id # id} \cup updated
                /\ ShopReply(s, job[s].me, {[id |-> id, body |-> body]},
                             Response(s, "updateCustomer", 200, "", {}, updated, "none"))
    /\ job' = [job EXCEPT ![s] = Idle]
    /\ UNCHANGED <<users, nextId, session, reg, codec, cars, orders, serial, seed>>

DeleteCustomerCheck(s, id) ==
    OwnerCheck(s, "deleteCustomer", customers, id, "none", "Customer not found")

\* DELETE FROM customers WHERE id = :id; the foreign key of orders refuses
\* the deletion of a customer that has orders.
DeleteCustomerWrite(s) ==
    /\ job[s].pc = "deleteCustomer"
    /\ LET id == job[s].id
       IN  IF \E o \in orders : o.customerId = id
           THEN /\ ShopReply(s, job[s].me, {[id |-> id, body |-> "none"]},
                             Response(s, "deleteCustomer", 500, "Error deleting customer",
                                      {}, {}, "none"))
                /\ UNCHANGED customers
           ELSE /\ customers' = {c \in customers : c.id # id}
                /\ ShopReply(s, job[s].me, {[id |-> id, body |-> "none"]},
                             Response(s, "deleteCustomer", 200,
                                      "Customer deleted successfully", {}, {}, "none"))
    /\ job' = [job EXCEPT ![s] = Idle]
    /\ UNCHANGED <<users, nextId, session, reg, codec, cars, orders, serial, seed>>

\* GET /api/orders/:id: the order joined with its customer and its car.
GetOrder(s, id) ==
    /\ job[s].pc = "idle"
    /\ IF Gate(users, session, s, "sales") # 0
       THEN ShopGate(s, "getOrder", {[id |-> id]})
       ELSE LET me == session[s]
                order == {o \in OwnRows(orders, id, me) :
                             /\ \E c \in customers : c.id = o.customerId
                             /\ \E car \in cars : car.id = o.carId}
            IN  /\ IF order = {}
                   THEN ShopReply(s, me, {[id |-> id]},
                                  Response(s, "getOrder", 404, "Order not found",
                                           {}, {}, "none"))
                   ELSE ShopReply(s, me, {[id |-> id]},
                                  Response(s, "getOrder", 200, "", {}, order, "none"))
                /\ UNCHANGED <<customers, cars, orders, serial, job>>
    /\ UNCHANGED <<users, nextId, session, reg, codec, seed>>

OrdersInFlight ==
    Cardinality({s \in Sessions : job[s].pc \in {"orderCar", "orderInsert"}})

\* POST /api/orders: the select of the customer of the caller.
OrderCustomer(s, body) ==
    /\ job[s].pc = "idle"
    /\ IF Gate(users, session, s, "sales") # 0
       THEN ShopGate(s, "createOrder", {body})
       ELSE LET me == session[s]
            IN  /\ IF OwnRows(customers, body.customerId, me) = {}
                   THEN /\ ShopReply(s, me, {body},
                                     Response(s, "createOrder", 404, "Customer not found",
                                              {}, {}, "none"))
                        /\ UNCHANGED job
                   ELSE /\ serial.orders + OrdersInFlight <= MaxOrderId
                        /\ job' = [job EXCEPT ![s] = [pc |-> "orderCar", me |-> me,
                                                      body |-> body]]
                        /\ UNCHANGED resp
                /\ UNCHANGED <<customers, cars, orders, serial>>
    /\ UNCHANGED <<users, nextId, session, reg, codec, seed>>

\* status = 'in_stock'
Available(car) == car.status = "in_stock"

\* POST /api/orders: the select of the car that is in stock.
OrderCar(s) ==
    /\ job[s].pc = "orderCar"
    /\ IF {car \in cars : car.id = job[s].body.carId /\ Available(car)} = {}
       THEN /\ ShopReply(s, job[s].me, {job[s].body},
                         Response(s, "createOrder", 400, "Car not available for purchase",
                                  {}, {}, "none"))
            /\ job' = [job EXCEPT ![s] = Idle]
       ELSE /\ job' = [job EXCEPT ![s].pc = "orderInsert"]
            /\ UNCHANGED resp
    /\ UNCHANGED <<users, nextId, session, reg, codec, customers, cars, orders,
                   serial, seed>>

\* POST /api/orders: the insert of the order; the foreign keys refuse an
\* order whose customer or sales person is gone.
OrderInsert(s) ==
    /\ job[s].pc = "orderInsert"
    /\ LET body == job[s].body
           row == [id |-> serial.orders, customerId |-> body.customerId,
                   carId |-> body.carId, salesPersonId |-> job[s].me,
                   status |-> "pending"]
       IN  IF \/ ~\E c \in customers : c.id = row.customerId
              \/ getUser(users, row.salesPersonId) = {}
           THEN /\ ShopReply(s, job[s].me, {body},
                             Response(s, "createOrder", 400, "Error creating order",
                                      {}, {}, "none"))
                /\ job' = [job EXCEPT ![s] = Idle]
                /\ UNCHANGED <<orders, serial>>
           ELSE /\ orders' = orders \cup {row}
                /\ serial' = [serial EXCEPT !.orders = @ + 1]
                /\ job' = [job EXCEPT ![s] = [pc |-> "orderSell", me |-> job[s].me,
                                              body |-> body, order |-> row]]
                /\ UNCHANGED resp
    /\ UNCHANGED <<users, nextId, session, reg, codec, customers, cars, seed>>

\* POST /api/orders: UPDATE cars SET status = 'sold' and the 201 response.
OrderSell(s) ==
    /\ job[s].pc = "orderSell"
    /\ cars' = {IF car.id = job[s].body.carId THEN [car EXCEPT !.status = "sold"]
                                              ELSE car : car \in cars}
    /\ ShopReply(s, job[s].me, {job[s].body},
                 Response(s, "createOrder", 201, "", {}, {job[s].order}, "none"))
    /\ job' = [job EXCEPT ![s] = Idle]
    /\ UNCHANGED <<users, nextId, session, reg, codec, customers, orders, serial, seed>>

PatchOrderCheck(s, id, body) ==
    OwnerCheck(s, "patchOrder", orders, id, body, "Order not found")

\* UPDATE orders SET ... WHERE id = :id AND sales_person_id = :me
PatchRows(rows, id, me) == OwnRows(rows, id, me)

PatchOrderWrite(s) ==
    /\ job[s].pc = "patchOrder"
    /\ LET id == job[s].id
           body == job[s].body
           hit == PatchRows(orders, id, job[s].me)
           updated == {[o EXCEPT !.status = body.status] : o \in hit}
       IN  /\ orders' = (orders \ hit) \cup updated
           /\ ShopReply(s, job[s].me, {[id |-> id, body |-> body]},
                        Response(s, "patchOrder", 200, "", {}, updated, "none"))
    /\ job' = [job EXCEPT ![s] = Idle]
    /\ UNCHANGED <<users, nextId, session, reg, codec, customers, cars, serial, seed>>

(***************************************************************************)
(* The database seed script                                                *)
(***************************************************************************)
SeedPassword == "password123"

\* The salt values randomBytes yields to the script.
SeedSalts == {"c0de"}

\* The accounts of the script, in the order of their inserts.
SeedAccounts ==
    <<[username |-> "admin", role |-> "admin",
       email |-> <<"a", "d", "m", "i", "n", "@",
                   "e", "x", "a", "m", "p", "l", "e", ".", "c", "o", "m">>],
      [username |-> "dealer", role |-> "dealer",
       email |-> <<"d", "e", "a", "l", "e", "r", "@",
                   "e", "x", "a", "m", "p", "l", "e", ".", "c", "o", "m">>],
      [username |-> "sales", role |-> "sales",
       email |-> <<"s", "a", "l", "e", "s", "@",
                   "e", "x", "a", "m", "p", "l", "e", ".", "c", "o", "m">>]>>

\* The script's own hashPassword.
seedHashPassword(password, salt) == <<ToHex(Scrypt(password, salt)), salt>>

\* The row the k-th insert of the script writes; dealer_id is left null.
SeedRow(k, id, salt) ==
    [id |-> id, username |-> SeedAccounts[k].username,
     email |-> SeedAccounts[k].email,
     password |-> seedHashPassword(SeedPassword, salt),
     role |-> SeedAccounts[k].role, dealerId |-> NoUser]

\* The script reads the users table: it goes on to its inserts when the
\* table is empty and ends otherwise.
SeedStart ==
    /\ seed.pc = "off"
    /\ seed' = IF users = {} THEN [pc |-> "insert", rows |-> 0]
                             ELSE [pc |-> "done", rows |-> 0]
    /\ UNCHANGED <<users, nextId, session, reg, resp, codec,
                   customers, cars, orders, serial, job>>

\* One awaited insert of the script; an insert the unique indexes refuse
\* throws, and the catch block ends the script.
SeedInsert(salt) ==
    /\ seed.pc = "insert"
    /\ LET row == SeedRow(seed.rows + 1, nextId, salt)
       IN  IF UniqueViolation(users, row)
           THEN /\ seed' = [seed EXCEPT !.pc = "done"]
                /\ UNCHANGED <<users, nextId>>
           ELSE /\ users' = users \cup {row}
                /\ nextId' = nextId + 1
                /\ seed' = [pc |-> IF seed.rows + 1 = Len(SeedAccounts)
                                   THEN "done" ELSE "insert",
                            rows |-> seed.rows + 1]
    /\ UNCHANGED <<session, reg, resp, codec, customers, cars, orders, serial, job>>

(***************************************************************************)
(* Session expiry and process restart                                      *)
(***************************************************************************)
\* The cookie's maxAge passes: the session is absent from then on.
Expire(s) ==
    /\ session[s] # NoUser
    /\ session' = [session EXCEPT ![s] = NoUser]
    /\ UNCHANGED <<users, nextId, reg, resp, codec, shopVars>>

\* Faulty variant: sessions are kept in process memory (the default store).
Restart_MemoryStore(secretKept) ==
    /\ reg' = [s \in Sessions |-> Idle]
    /\ resp' = [sess |-> "c1", authed |-> FALSE, principal |-> NoUser,
             request |-> {}, res |-> NoResponse]
    /\ session' = [s \in Sessions |-> NoUser]
    /\ UNCHANGED <<users, nextId, codec, shopVars>>

\* The process restarts: requests in flight are lost and the new process has
\* sent no response yet; the sessions table of the MySQL store is kept; with
\* no SESSION_SECRET in the environment (secretKept false) setupAuth draws a
\* new random secret and no earlier cookie verifies.
Restart(secretKept) ==
    /\ reg' = [s \in Sessions |-> Idle]
    /\ resp' = [sess |-> "c1", authed |-> FALSE, principal |-> NoUser,
             request |-> {}, res |-> NoResponse]
    /\ session' = IF secretKept THEN session ELSE [s \in Sessions |-> NoUser]
    /\ UNCHANGED <<users, nextId, codec, shopVars>>

\* Bodies that parse: every role, pairs that share the email only, the
\* username only, both or neither, and one that names a dealer (dealerId is
\* optional; NoUser stands for its absence).
ValidRegisterBodies ==
    [username : {"alice"}, email : {EmailA}, password : {"password123"},
     role : Roles, dealerId : {NoUser}]
        \cup [username : {"alice", "bob"}, email : {EmailA, EmailB},
              password : {"password123"}, role : {"sales"}, dealerId : {NoUser}]
        \cup {[username |-> "bob", email |-> EmailB, password |-> "password123",
               role |-> "sales", dealerId |-> 1]}

\* One body per violated field, an absent role, and one violating every field.
InvalidRegisterBodies ==
    {[username |-> "al", email |-> EmailA, password |-> "password123",
      role |-> "sales", dealerId |-> NoUser],
     [username |-> "alice", email |-> EmailBad, password |-> "password123",
      role |-> "sales", dealerId |-> NoUser],
     [username |-> "alice", email |-> EmailA, password |-> "wrong",
      role |-> "sales", dealerId |-> NoUser],
     [username |-> "alice", email |-> EmailA, password |-> "password123",
      role |-> "guest", dealerId |-> NoUser],
     [username |-> "alice", email |-> EmailA, password |-> "password123",
      role |-> "absent", dealerId |-> NoUser],
     [username |-> "al", email |-> EmailBad, password |-> "wrong",
      role |-> "guest", dealerId |-> NoUser]}

RegisterBodies == ValidRegisterBodies \cup InvalidRegisterBodies

\* Every body with the store answering, and a store failure on the bodies
\* of one account.
RegisterRequests ==
    (RegisterBodies \X {FALSE})
        \cup ([username : {"alice"}, email : {EmailA}, password : {"password123"},
               role : {"sales", "guest"}, dealerId : {NoUser}] \X {TRUE})

\* One account with every password and role, another with one role.
ValidLoginBodies ==
    [email : {EmailA}, password : {"password123", "wrong"}, role : Roles]
        \cup [email : {EmailB}, password : {"password123", "wrong"}, role : {"sales"}]

InvalidLoginBodies ==
    {[email |-> EmailBad, password |-> "password123", role |-> "sales"],
     [email |-> EmailA, password |-> "", role |-> "sales"],
     [email |-> EmailA, password |-> "password123", role |-> "guest"],
     [email |-> EmailA, password |-> "wrong", role |-> "absent"]}

LoginBodies == ValidLoginBodies \cup InvalidLoginBodies

\* Every body with no failure injected, and store and session-store failures
\* on one body.
LoginRequests ==
    (LoginBodies \X {"none"})
        \cup ([email : {EmailA}, password : {"password123"}, role : {"sales"}]
                  \X {"store", "session"})

\* Bodies without a role, one with issues, and one that carries a role.
StaffBodies ==
    [username : {"alice", "bob"}, email : {EmailA, EmailB},
     password : {"password123"}, role : {"absent"}]
        \cup {[username |-> "al", email |-> EmailB, password |-> "wrong",
                role |-> "absent"],
               [username |-> "bob", email |-> EmailB, password |-> "password123",
                role |-> "admin"]}

Next ==
    \/ \E s \in Sessions, r \in RegisterRequests : RegisterStart(s, r[1], r[2])
    \/ \E s \in Sessions, f \in BOOLEAN : RegisterUsername(s, f)
    \/ \E s \in Sessions, salt \in RequestSalts, f \in {"none", "store", "session"} :
           RegisterCreate(s, salt, f)
    \/ \E s \in Sessions, r \in LoginRequests : Login(s, r[1], r[2])
    \/ \E s \in Sessions, f \in BOOLEAN : Logout(s, f)
    \/ \E s \in Sessions : GetUser(s)
    \/ \E s \in Sessions, body \in StaffBodies, salt \in RequestSalts :
           AddSalesStaff(s, body, salt)
    \/ \E s \in Sessions, id \in 1..MaxId : DeleteSalesStaff(s, id)
    \/ \E s \in Sessions, role \in Roles : Dashboard(s, role)
    \/ \E s \in Sessions : Expire(s)
    \/ \E secretKept \in BOOLEAN : Restart(secretKept)

Spec == Init /\ [][Next]_vars

(***************************************************************************)
(* The password codec on its own: hashPassword(plain) with a drawn salt,   *)
(* then comparePasswords(supplied, stored).                                *)
(***************************************************************************)
CodecInit ==
    /\ users = {}
    /\ nextId = 1
    /\ session = [s \in Sessions |-> NoUser]
    /\ reg = [s \in Sessions |-> Idle]
    /\ resp = [sess |-> "c1", authed |-> FALSE, principal |-> NoUser,
             request |-> {}, res |-> NoResponse]
    /\ codec \in [pc : {"hash"}, plain : PasswordInputs, supplied : PasswordInputs,
                   salt : Salts, stored : {<<>>},
                   result : {[threw |-> FALSE, ok |-> FALSE]}]
    /\ ShopEmpty

CodecHash ==
    /\ codec.pc = "hash"
    /\ codec' = [codec EXCEPT !.pc = "compare",
                               !.stored = hashPassword(codec.plain, codec.salt)]
    /\ UNCHANGED <<users, nextId, session, reg, resp, shopVars>>

CodecCompare ==
    /\ codec.pc = "compare"
    /\ codec' = [codec EXCEPT !.pc = "done",
                               !.result = comparePasswords(codec.supplied, codec.stored)]
    /\ UNCHANGED <<users, nextId, session, reg, resp, shopVars>>

CodecNext == CodecHash \/ CodecCompare

CodecSpec == CodecInit /\ [][CodecNext]_vars

(***************************************************************************)
(* Logins against a users table that holds one row written by other means  *)
(* than hashPassword (an import, a manual insert): its password column is  *)
(* any of StoredInputs.                                                    *)
(***************************************************************************)
\* No delimiter, an empty digest, an empty salt, the empty string, a
\* well-formed value, a digest that is not hex, and a value of three parts.
StoredInputs ==
    {<<"password123">>,
     <<"", "5a17">>,
     <<ToHex(Scrypt("password123", "5a17")), "">>,
     <<"">>,
     hashPassword("password123", "5a17"),
     <<"zz", "5a17">>,
     <<ToHex(Scrypt("password123", "5a17")), "5a17", "x">>}

LegacyInit ==
    /\ \E stored \in StoredInputs, role \in Roles :
           users = {[id |-> 1, username |-> "alice", email |-> EmailA,
                     password |-> stored, role |-> role, dealerId |-> NoUser]}
    /\ nextId = 2
    /\ session = [s \in Sessions |-> NoUser]
    /\ reg = [s \in Sessions |-> Idle]
    /\ resp = [sess |-> "c1", authed |-> FALSE, principal |-> NoUser,
             request |-> {}, res |-> NoResponse]
    /\ codec = CodecIdle
    /\ ShopEmpty

LegacyNext ==
    \/ \E s \in Sessions, r \in LoginRequests : Login(s, r[1], r[2])
    \/ \E s \in Sessions : GetUser(s)

LegacySpec == LegacyInit /\ [][LegacyNext]_vars

(***************************************************************************)
(* The three paths that create a credential record: the seed script, run   *)
(* against the database while the server takes registrations, logins and   *)
(* the dealer's additions of sales staff.                                   *)
(***************************************************************************)
\* The logins of the seeded dealer and of a registered account.
SeedLoginBodies ==
    {[email |-> SeedAccounts[2].email, password |-> SeedPassword, role |-> "dealer"],
     [email |-> EmailA, password |-> "password123", role |-> "dealer"]}

SeedRegisterBodies ==
    {b \in RegisterBodies : b.username = "alice" /\ b.email = EmailA}

SeedNext ==
    \/ SeedStart
    \/ \E salt \in SeedSalts : SeedInsert(salt)
    \/ \E s \in Sessions, body \in SeedRegisterBodies : RegisterStart(s, body, FALSE)
    \/ \E s \in Sessions : RegisterUsername(s, FALSE)
    \/ \E s \in Sessions, salt \in RequestSalts : RegisterCreate(s, salt, "none")
    \/ \E s \in Sessions, body \in SeedLoginBodies : Login(s, body, "none")
    \/ \E s \in Sessions, body \in StaffBodies, salt \in RequestSalts :
           AddSalesStaff(s, body, salt)

SeedSpec == Init /\ [][SeedNext]_vars

(***************************************************************************)
(* The dealer's sales-staff endpoints with the awaits of the addition       *)
(* interleaved.                                                             *)
(***************************************************************************)
\* A dealer with four sales persons, signed in on both browser sessions.
StaffNames == <<"carol", "dave", "erin", "frank">>

StaffEmail(k) == <<StaffNames[k], "@", "x", ".", "c", "o", "m">>

StaffInit ==
    /\ users =
          {NewRow(1, [username |-> "dealer", email |-> <<"d", "@", "x", ".", "c", "o", "m">>,
                      role |-> "dealer", dealerId |-> NoUser],
                  hashPassword("password123", "5a17"))}
            \cup {NewRow(k + 1, [username |-> StaffNames[k], email |-> StaffEmail(k),
                                 role |-> "sales", dealerId |-> 1],
                         hashPassword("password123", "5a17")) : k \in 1..4}
    /\ nextId = 6
    /\ session = [s \in Sessions |-> 1]
    /\ reg = [s \in Sessions |-> Idle]
    /\ resp = [sess |-> "c1", authed |-> FALSE, principal |-> NoUser,
               request |-> {}, res |-> NoResponse]
    /\ codec = CodecIdle
    /\ ShopEmpty

StaffNext ==
    \/ \E s \in Sessions, body \in StaffBodies : StaffAddCount(s, body)
    \/ \E s \in Sessions, salt \in RequestSalts : StaffAddInsert(s, salt)
    \/ \E s \in Sessions, id \in 1..StaffMaxId : DeleteSalesStaff(s, id)

StaffSpec == StaffInit /\ [][StaffNext]_vars

(***************************************************************************)
(* Two sales persons, each signed in on a browser session and each with a  *)
(* customer of their own.                                                   *)
(***************************************************************************)
SalesPersons ==
    {NewRow(k, [username |-> StaffNames[k], email |-> StaffEmail(k),
                role |-> "sales", dealerId |-> NoUser],
            hashPassword("password123", "5a17")) : k \in 1..2}

\* Customer k belongs to sales person k.
FirstCustomers ==
    {[id |-> k, salesPersonId |-> k, firstName |-> "Ann",
      email |-> <<StaffNames[k + 2], "@", "x", ".", "c", "o", "m">>] : k \in 1..2}

CustomerBodies ==
    {[firstName |-> "Cy", email |-> EmailA, salesPersonId |-> 2],
     [firstName |-> "Cy", email |-> EmailB, salesPersonId |-> 1],
     [firstName |-> "C", email |-> EmailB, salesPersonId |-> 1]}

CustomerUpdates == {[firstName |-> "Bea", email |-> EmailA]}

OrderBodies == [customerId : 1..2, carId : CarIds]

OrderUpdates == {[status |-> "confirmed"]}

\* The part of the state that the two specifications below share.
SalesInit ==
    /\ users = SalesPersons
    /\ nextId = 3
    /\ session = [s \in Sessions |-> IF s = "c1" THEN 1 ELSE 2]
    /\ reg = [s \in Sessions |-> Idle]
    /\ resp = [sess |-> "c1", authed |-> FALSE, principal |-> NoUser,
               request |-> {}, res |-> NoResponse]
    /\ codec = CodecIdle
    /\ customers = FirstCustomers
    /\ job = [s \in Sessions |-> Idle]
    /\ seed = SeedOff

\* Each sales person has sold one car to their customer.
ShopInit ==
    /\ SalesInit
    /\ cars = {[id |-> k, status |-> "sold"] : k \in CarIds}
    /\ orders = {[id |-> k, customerId |-> k, carId |-> k, salesPersonId |-> k,
                  status |-> "pending"] : k \in 1..2}
    /\ serial = [customers |-> 3, orders |-> 3]

\* The customer endpoints and the reading and updating of orders.
ShopNext ==
    \/ \E s \in Sessions, id \in 1..MaxCustomerId : GetCustomer(s, id)
    \/ \E s \in Sessions, body \in CustomerBodies : CreateCustomer(s, body)
    \/ \E s \in Sessions, id \in 1..MaxCustomerId, body \in CustomerUpdates :
           UpdateCustomerCheck(s, id, body)
    \/ \E s \in Sessions : UpdateCustomerWrite(s)
    \/ \E s \in Sessions, id \in 1..MaxCustomerId : DeleteCustomerCheck(s, id)
    \/ \E s \in Sessions : DeleteCustomerWrite(s)
    \/ \E s \in Sessions, id \in 1..2 : GetOrder(s, id)
    \/ \E s \in Sessions, id \in 1..2, body \in OrderUpdates :
           PatchOrderCheck(s, id, body)
    \/ \E s \in Sessions : PatchOrderWrite(s)
    \/ \E s \in Sessions : Logout(s, FALSE)

ShopSpec == ShopInit /\ [][ShopNext]_vars

\* Every car is in stock and no order has been placed.
OrderInit ==
    /\ SalesInit
    /\ cars = {[id |-> k, status |-> "in_stock"] : k \in CarIds}
    /\ orders = {}
    /\ serial = [customers |-> 3, orders |-> 1]

\* The placing of orders, beside the reading of orders and the deletion of
\* customers.
OrderNext ==
    \/ \E s \in Sessions, body \in OrderBodies : OrderCustomer(s, body)
    \/ \E s \in Sessions : OrderCar(s)
    \/ \E s \in Sessions : OrderInsert(s)
    \/ \E s \in Sessions : OrderSell(s)
    \/ \E s \in Sessions, id \in 1..MaxOrderId : GetOrder(s, id)
    \/ \E s \in Sessions, id \in 1..2 : DeleteCustomerCheck(s, id)
    \/ \E s \in Sessions : DeleteCustomerWrite(s)

OrderSpec == OrderInit /\ [][OrderNext]_vars

(***************************************************************************)
(* Properties                                                              *)
(***************************************************************************)
\* The plaintexts a login can supply and the emails that parse.
LoginPasswords == {"password123", "wrong"}
ValidEmails == {EmailA, EmailB}

\* The stored row with this email verifies the password p.
Verifies(u, p) ==
    /\ Len(u.password) = 2
    /\ u.password[1] = ToHex(Scrypt(p, u.password[2]))

\* C1: password round trip.  Once hashPassword(plain) has been stored and
\* comparePasswords(supplied, stored) has returned, it returned true exactly
\* when supplied = plain, and it did not throw.
C1_PasswordRoundTrip ==
    codec.pc = "done" =>
        /\ ~codec.result.threw
        /\ codec.result.ok <=> (codec.supplied = codec.plain)

\* A password was hashed and then verified against itself.
C1_Witness ==
    /\ codec.pc = "done"
    /\ codec.plain = "password123"
    /\ codec.supplied = codec.plain
    /\ codec.result.ok

\* C2: a login with an email that has no record and a login with an existing
\* email and a wrong password get the same response, 401 "Invalid email or
\* password", for every claimed role, and leave the session as it was.
C2_SameFailure ==
    \A s \in Sessions, role \in Roles, e1 \in ValidEmails, p1 \in LoginPasswords,
       u \in users, p2 \in LoginPasswords :
        ((\A v \in users : v.email # e1) /\ ~Verifies(u, p2)) =>
            LET r1 == LoginResponse(users, s,
                          [email |-> e1, password |-> p1, role |-> role], "none")
                r2 == LoginResponse(users, s,
                          [email |-> u.email, password |-> p2, role |-> role], "none")
            IN  /\ r1 = r2
                /\ r1.status = 401
                /\ r1.message = "Invalid email or password"
                /\ LoginSession(session, s, r1) = session
                /\ LoginSession(session, s, r2) = session

\* A login with an existing email and a wrong password was answered 401 while
\* another email has no record.
C2_Witness ==
    /\ resp.res.op = "login"
    /\ resp.res.status = 401
    /\ \E body \in resp.request, u \in users :
           u.email = body.email /\ ~Verifies(u, body.password)
    /\ \E e \in ValidEmails : \A v \in users : v.email # e

\* C3: a login with an existing email, its correct password and a claimed role
\* other than the stored one is answered 403 "Invalid role for this user" and
\* leaves the session as it was.
C3_RoleMismatch ==
    \A s \in Sessions, u \in users, p \in LoginPasswords, role \in Roles :
        (Verifies(u, p) /\ role # u.role) =>
            LET r == LoginResponse(users, s,
                         [email |-> u.email, password |-> p, role |-> role], "none")
            IN  /\ r.status = 403
                /\ r.message = "Invalid role for this user"
                /\ r.user = NoUser
                /\ LoginSession(session, s, r) = session

\* A login with the correct password and another role was answered 403 and
\* the session is not bound to that principal.
C3_Witness ==
    /\ resp.res.op = "login"
    /\ resp.res.status = 403
    /\ \E body \in resp.request, u \in users :
           /\ u.email = body.email
           /\ Verifies(u, body.password)
           /\ u.role # body.role
           /\ session[resp.sess] # u.id

\* GET /api/user on session s returns the principal id.
Returns(s, id) ==
    LET r == currentUser(users, session, s)
    IN  r.status = 200 /\ r.user = id

\* The id of the principal GET /api/user on session s returns (NoUser: it
\* answers 401).
WhoAmI(s) == currentUser(users, session, s).user

\* The step changes what GET /api/user on s reads: the session's binding or
\* the users table.
Touched(s) == session'[s] # session[s] \/ users' # users

\* The steps that answer a request of session s, and the removal of a record.
LogoutOn(s) == \E f \in BOOLEAN : Logout(s, f)
LoginOn(s) == \E r \in LoginRequests : Login(s, r[1], r[2])
RegisterOn(s) ==
    \E salt \in RequestSalts, f \in {"none", "store", "session"} :
        RegisterCreate(s, salt, f)
RemovalOf(id) == \E d \in Sessions : DeleteSalesStaff(d, id)

\* A login with an existing email, its password and its stored role answers
\* 200 with that principal, binds the session to its id, and GET /api/user
\* on the session then returns it.
LoginBinds ==
    \A s \in Sessions, u \in users, p \in LoginPasswords :
        Verifies(u, p) =>
            LET r == LoginResponse(users, s,
                         [email |-> u.email, password |-> p, role |-> u.role], "none")
                after == LoginSession(session, s, r)
                who == currentUser(users, after, s)
            IN  /\ r.status = 200
                /\ r.user = u.id
                /\ after[s] = u.id
                /\ who.status = 200
                /\ who.user = u.id

\* C4 as claimed: a successful login binds the session, and GET /api/user on
\* a session keeps returning the same principal across every step that is
\* not a logout, a login or the expiry of that session.
C4_Original ==
    /\ []LoginBinds
    /\ [][\A s \in Sessions :
              (Touched(s) /\ WhoAmI(s) # NoUser /\ WhoAmI(s)' # WhoAmI(s)) =>
                  (LogoutOn(s) \/ LoginOn(s) \/ Expire(s))]_vars

\* C4 (amended): a successful login binds the session, and GET /api/user on a
\* session keeps returning the same principal across every step that is not a
\* logout, a login, a registration or the expiry of that session, the removal
\* of the principal's record, or a restart with no SESSION_SECRET configured.
C4_SessionKeepsPrincipal ==
    /\ []LoginBinds
    /\ [][\A s \in Sessions :
              (Touched(s) /\ WhoAmI(s) # NoUser /\ WhoAmI(s)' # WhoAmI(s)) =>
                  (\/ LogoutOn(s) \/ LoginOn(s) \/ Expire(s)
                   \/ RegisterOn(s) \/ RemovalOf(WhoAmI(s)) \/ Restart(FALSE))]_vars

\* A login was answered 200 and GET /api/user on that session returns the
\* principal of the response.
C4_Witness ==
    /\ resp.res.op = "login"
    /\ resp.res.status = 200
    /\ Returns(resp.sess, resp.res.user)
    /\ \E body \in resp.request, u \in users :
           u.id = resp.res.user /\ u.email = body.email /\ u.role = body.role

\* GET /api/user on session s answers 401 "Not authenticated".
NotAuthenticated(s) ==
    LET r == currentUser(users, session, s)
    IN  r.status = 401 /\ r.message = "Not authenticated"

\* C5: an answered logout leaves GET /api/user on the session at 401 "Not
\* authenticated", and a session on which GET /api/user answers 401 keeps
\* answering 401 across every step but a login answered 200 or a registration
\* answered 201 on that session.
C5_LoggedOutStays ==
    [][\A s \in Sessions :
           /\ (resp'.res.op = "logout" /\ Logout(s, FALSE)) => NotAuthenticated(s)'
           /\ (Touched(s) /\ NotAuthenticated(s) /\ ~NotAuthenticated(s)') =>
                  \/ LoginOn(s) /\ resp'.res.status = 200
                  \/ RegisterOn(s) /\ resp'.res.status = 201]_vars

\* A logout of an authenticated request was answered and GET /api/user on the
\* session is now 401.
C5_Witness ==
    /\ resp.res.op = "logout"
    /\ resp.res.status = 200
    /\ resp.authed
    /\ NotAuthenticated(resp.sess)

\* C6: a logout whose session-store call does not fail is answered 200
\* whether or not the request is authenticated, leaves the session with no
\* principal and the records as they were, and a second logout on the state it
\* leaves changes nothing and is answered 200 again.
C6_LogoutIdempotent ==
    [][\A s \in Sessions :
           Logout(s, FALSE) =>
               /\ resp'.res.status = 200
               /\ resp'.res.error = "none"
               /\ session'[s] = NoUser
               /\ \A c \in Sessions \ {s} : session'[c] = session[c]
               /\ users' = users
               /\ LogoutSession(session', s, FALSE) = session'
               /\ LogoutResponse(s, FALSE)' = resp'.res]_vars

\* A logout on a request with no authenticated session was answered 200.
C6_Witness ==
    /\ resp.res.op = "logout"
    /\ resp.res.status = 200
    /\ ~resp.authed
    /\ session[resp.sess] = NoUser

C8_ConflictRejected ==
    [][\A s \in Sessions :
           /\ \A body \in resp'.request :
                  (/\ resp'.res.op = "register"
                   /\ reg[s].pc = "idle"
                   /\ body \in ValidRegisterBodies
                   /\ \E u \in users : u.email = body.email
                   /\ RegisterStart(s, body, FALSE)) =>
                      /\ resp'.res.status = 400
                      /\ resp'.res.message = "Email already in use"
                      /\ users' = users
                      /\ reg'[s] = Idle
           /\ (/\ reg[s].pc = "username"
               /\ \E u \in users : u.username = reg[s].userData.username
               /\ RegisterUsername(s, FALSE)) =>
                  /\ resp'.res.status = 400
                  /\ resp'.res.message = "Username already exists"
                  /\ users' = users
                  /\ reg'[s] = Idle]_vars

\* A registration with a new email and a username in use was answered 400
\* "Username already exists".
C8_Witness ==
    /\ resp.res.op = "register"
    /\ resp.res.status = 400
    /\ resp.res.message = "Username already exists"
    /\ \E body \in resp.request :
           /\ \A u \in users : u.email # body.email
           /\ \E u \in users : u.username = body.username

\* No two records share an id, an email or a username.
UniqueUsers ==
    \A u, v \in users :
        (u.id = v.id \/ u.email = v.email \/ u.username = v.username) => u = v

\* The record the registration in flight on s would insert collides with a
\* stored one.
Collides(s) ==
    \E u \in users :
        \/ u.email = reg[s].userData.email
        \/ u.username = reg[s].userData.username

\* C9: no two records ever share an email or a username; and of registrations
\* that passed both lookups, the insert of one that collides with a stored
\* record is refused, with no record created or altered and no 201, while the
\* insert of one that does not collide adds exactly its own record.
C9_UniqueUnderRace ==
    /\ []UniqueUsers
    /\ [][\A s \in Sessions, salt \in RequestSalts :
              (reg[s].pc = "create" /\ RegisterCreate(s, salt, "none")) =>
                  IF Collides(s)
                  THEN /\ users' = users
                       /\ resp'.res.status # 201
                       /\ session' = session
                  ELSE \E u \in users' :
                           /\ users' = users \cup {u}
                           /\ u \notin users
                           /\ u.email = reg[s].userData.email
                           /\ u.username = reg[s].userData.username]_vars

\* Two registrations with the same email passed the lookups together; one
\* created the record and the other was refused by the insert.
C9_Witness ==
    /\ resp.res.op = "register"
    /\ resp.res.error = "unique"
    /\ \E body \in resp.request :
           /\ Cardinality({u \in users : u.email = body.email}) = 1
           /\ \A u \in users : u.email = body.email => u.username # body.username

\* C10 as claimed: a registration refused because its email or username is
\* in use, by a lookup or by the insert, is answered 400 with an "already in
\* use" message.
C10_DuplicateIsClientError ==
    [][\A s \in Sessions :
           /\ \A body \in resp'.request :
                  (/\ resp'.res.op = "register"
                   /\ reg[s].pc = "idle"
                   /\ body \in ValidRegisterBodies
                   /\ \E u \in users : u.email = body.email
                   /\ RegisterStart(s, body, FALSE)) =>
                      resp'.res.status = 400
           /\ (/\ reg[s].pc = "username"
               /\ \E u \in users : u.username = reg[s].userData.username
               /\ RegisterUsername(s, FALSE)) =>
                  resp'.res.status = 400
           /\ \A salt \in RequestSalts :
                  (reg[s].pc = "create" /\ Collides(s)
                       /\ RegisterCreate(s, salt, "none")) =>
                      /\ resp'.res.status = 400
                      /\ resp'.res.message \in
                             {"Email already in use", "Username already exists"}]_vars

\* C11: no response of register, login or GET /api/user carries a password
\* field, whatever login or identity query is sent next, and the req.user
\* resolved from a session through getUser never carries one.
C11_HashStaysInside ==
    /\ resp.res.op \in {"register", "login", "user"} =>
           "password" \notin resp.res.fields
    /\ \A s \in Sessions :
           /\ \A u \in ReqUser(users, session, s) : "password" \notin DOMAIN u
           /\ "password" \notin currentUser(users, session, s).fields
           /\ \A u \in users, p \in LoginPasswords :
                  "password" \notin
                      LoginResponse(users, s, [email |-> u.email, password |-> p,
                                               role |-> u.role], "none").fields

\* GET /api/user answered 200 with the fields of a principal whose row holds
\* an encoded password.
C11_Witness ==
    /\ resp.res.op = "user"
    /\ resp.res.status = 200
    /\ resp.res.fields # {}
    /\ \E u \in users : u.id = resp.res.user /\ Len(u.password) = 2

\* C12: a registration whose username has fewer than 3 characters, whose
\* email is not valid, whose password has fewer than 8 characters or whose
\* role is outside {admin, dealer, sales} is answered 400 "Validation error"
\* listing exactly the violated fields, and nothing is stored or looked up.
C12_ValidationListsAll ==
    [][\A s \in Sessions :
           \A body \in resp'.request :
               (/\ resp'.res.op = "register"
                /\ reg[s].pc = "idle"
                /\ body \in RegisterBodies
                /\ \/ Len(body.username) < 3
                   \/ ~IsEmail(body.email)
                   \/ Len(body.password) < 8
                   \/ body.role \notin {"admin", "dealer", "sales"}
                /\ \E f \in BOOLEAN : RegisterStart(s, body, f)) =>
                   /\ resp'.res.status = 400
                   /\ resp'.res.message = "Validation error"
                   /\ "username" \in resp'.res.issues <=> Len(body.username) < 3
                   /\ "email" \in resp'.res.issues <=> ~IsEmail(body.email)
                   /\ "password" \in resp'.res.issues <=> Len(body.password) < 8
                   /\ "role" \in resp'.res.issues <=>
                          body.role \notin {"admin", "dealer", "sales"}
                   /\ users' = users
                   /\ session' = session
                   /\ reg' = reg]_vars

\* A registration violating all four fields was answered 400 naming all four.
C12_Witness ==
    /\ resp.res.op = "register"
    /\ resp.res.status = 400
    /\ resp.res.message = "Validation error"
    /\ resp.res.issues = {"username", "email", "password", "role"}
    /\ \E body \in resp.request : Len(body.username) < 3 /\ Len(body.password) < 8

\* The rows the session of s is bound to, and the step of a handler behind
\* the gate of a role (the dashboards, and the dealer's sales-staff endpoints).
BoundTo(s) == {u \in users : u.id = session[s]}
GatedStep(s, role) ==
    \/ Dashboard(s, role)
    \/ /\ role = "dealer"
       /\ \/ \E body \in StaffBodies, salt \in RequestSalts : AddSalesStaff(s, body, salt)
          \/ \E id \in 1..MaxId : DeleteSalesStaff(s, id)

\* C13: a request to a handler gated by isAuthenticated and hasRole(r) is
\* answered 401 "Not authenticated" when its session resolves to no principal
\* and 403 "Access denied" when the principal's stored role is not r, in both
\* cases with no record written; any other answer is given only to a session
\* bound to an existing principal whose stored role is r.
C13_RoleGate ==
    [][\A s \in Sessions, role \in Roles :
           (/\ reg[s].pc = "idle"
            /\ resp'.sess = s
            /\ resp'.res.op \in {"dashboard", "addStaff", "removeStaff"}
            /\ GatedStep(s, role)) =>
               /\ BoundTo(s) = {} =>
                      /\ resp'.res.status = 401
                      /\ resp'.res.message = "Not authenticated"
               /\ (BoundTo(s) # {} /\ \A u \in BoundTo(s) : u.role # role) =>
                      /\ resp'.res.status = 403
                      /\ resp'.res.message = "Access denied"
               /\ resp'.res.status \in {401, 403} =>
                      /\ users' = users
                      /\ nextId' = nextId
                      /\ session' = session
               /\ resp'.res.status \notin {401, 403} =>
                      \E u \in BoundTo(s) : u.role = role]_vars

\* A request to a dealer endpoint on a session bound to a principal of
\* another role was answered 403.
C13_Witness ==
    /\ resp.res.op \in {"addStaff", "removeStaff"}
    /\ resp.res.status = 403
    /\ resp.authed
    /\ \E u \in users : u.id = session[resp.sess] /\ u.role # "dealer"

\* C14: GET /api/user on a session bound to no principal (no session, one
\* never bound, or one past its expiry) is answered 401 "Not authenticated"
\* and nothing goes to the error handler; once a session expires its answer
\* is the one a session never bound gets.
C14_NoSessionIsNotAuthenticated ==
    /\ [](\A s \in Sessions :
             session[s] = NoUser =>
                 LET r == currentUser(users, session, s)
                 IN  /\ r.status = 401
                     /\ r.message = "Not authenticated"
                     /\ r.error = "none")
    /\ [][\A s \in Sessions :
              /\ Expire(s) =>
                     /\ currentUser(users', session', s) =
                            currentUser(users', [c \in Sessions |-> NoUser], s)
                     /\ currentUser(users', session', s).status = 401
              /\ (session[s] = NoUser /\ GetUser(s)) =>
                     /\ resp'.res.status = 401
                     /\ resp'.res.message = "Not authenticated"
                     /\ resp'.res.error = "none"]_vars

\* The session on which the last response, a login answered 200, was sent
\* has expired since, and GET /api/user on it answers 401.
C14_Witness ==
    /\ resp.res.op = "login"
    /\ resp.res.status = 200
    /\ session[resp.sess] = NoUser
    /\ \E u \in users : u.id = resp.res.user
    /\ NotAuthenticated(resp.sess)

\* C15: across a restart with SESSION_SECRET configured every session keeps
\* its binding, and GET /api/user on it returns the same principal as before.
C15_SessionSurvivesRestart ==
    [][Restart(TRUE) =>
           /\ session' = session
           /\ \A s \in Sessions :
                  /\ WhoAmI(s)' = WhoAmI(s)
                  /\ currentUser(users', session', s) =
                         currentUser(users, session, s)]_vars

\* The process has restarted, has sent no response yet, and GET /api/user on
\* a session established before the restart returns a principal.
C15_Witness ==
    /\ resp.res.op = "none"
    /\ \E s \in Sessions : WhoAmI(s) # NoUser

\* The scenario's registration body, and the store after it alone succeeded.
AliceBody ==
    [username |-> "alice", email |-> EmailA, password |-> "password123",
     role |-> "sales", dealerId |-> NoUser]
AfterAlice ==
    /\ Cardinality(users) = 1
    /\ \E u \in users :
           /\ u.username = "alice"
           /\ u.email = EmailA
           /\ u.role = "sales"
           /\ Verifies(u, "password123")

\* Step 1: from an empty store the registration of alice passes both lookups
\* and is answered 201 with no password field.
ScenarioRegister(s) ==
    /\ (users = {} /\ reg[s].pc = "idle" /\ RegisterStart(s, AliceBody, FALSE)) =>
           reg'[s] = [pc |-> "username", userData |-> AliceBody]
    /\ (users = {} /\ reg[s].pc = "username" /\ reg[s].userData = AliceBody
            /\ RegisterUsername(s, FALSE)) =>
           reg'[s] = [pc |-> "create", userData |-> AliceBody]
    /\ (users = {} /\ reg[s].pc = "create" /\ reg[s].userData = AliceBody
            /\ \E salt \in RequestSalts : RegisterCreate(s, salt, "none")) =>
           /\ resp'.res.status = 201
           /\ "password" \notin resp'.res.fields
           /\ AfterAlice'

\* Steps 2 and 3: the login with the stored role succeeds, the one claiming
\* admin is answered 403.
ScenarioLogins(s) ==
    AfterAlice =>
        /\ LoginResponse(users, s, [email |-> EmailA, password |-> "password123",
                                    role |-> "sales"], "none").status = 200
        /\ LET r == LoginResponse(users, s, [email |-> EmailA,
                         password |-> "password123", role |-> "admin"], "none")
           IN  r.status = 403 /\ r.message = "Invalid role for this user"

\* Step 5: a second registration with a@x.com is answered 400 "Email already
\* in use".
ScenarioConflict(s) ==
    \A body \in resp'.request :
        (/\ resp'.res.op = "register"
         /\ reg[s].pc = "idle"
         /\ AfterAlice
         /\ body \in ValidRegisterBodies
         /\ body.email = EmailA
         /\ RegisterStart(s, body, FALSE)) =>
            /\ resp'.res.status = 400
            /\ resp'.res.message = "Email already in use"
            /\ users' = users

\* C16 as claimed: step 4, the login with the wrong password and no role
\* supplied, is answered 401.
C16_Original ==
    /\ [](\A s \in Sessions :
             /\ ScenarioLogins(s)
             /\ AfterAlice =>
                    LoginResponse(users, s, [email |-> EmailA, password |-> "wrong",
                                             role |-> "absent"], "none").status = 401)
    /\ [][\A s \in Sessions : ScenarioRegister(s) /\ ScenarioConflict(s)]_vars

\* C16 (amended): the scenario holds step by step, with step 4 answered 401
\* "Invalid email or password" when a role of the closed set is supplied and
\* 400 "Validation error" naming the role when none is.
C16_Scenario ==
    /\ [](\A s \in Sessions :
             /\ ScenarioLogins(s)
             /\ AfterAlice =>
                    /\ \A role \in Roles :
                           LET r == LoginResponse(users, s, [email |-> EmailA,
                                        password |-> "wrong", role |-> role], "none")
                           IN  r.status = 401 /\ r.message = "Invalid email or password"
                    /\ LET r == LoginResponse(users, s, [email |-> EmailA,
                                     password |-> "wrong", role |-> "absent"], "none")
                       IN  /\ r.status = 400
                           /\ r.message = "Validation error"
                           /\ r.issues = {"role"})
    /\ [][\A s \in Sessions : ScenarioRegister(s) /\ ScenarioConflict(s)]_vars

\* Alice alone is registered and a second registration with a@x.com was
\* answered 400 "Email already in use".
C16_Witness ==
    /\ AfterAlice
    /\ resp.res.op = "register"
    /\ resp.res.status = 400
    /\ resp.res.message = "Email already in use"
    /\ \E body \in resp.request : body.email = EmailA

\* C18: a login whose password does not verify against the record of its
\* email is answered 401 "Invalid email or password" whatever role it claims,
\* and a login is answered 403 only when its password verifies against the
\* record of its email and the claimed role is not the stored one.
C18_RoleAfterCredentials ==
    \A s \in Sessions, e \in ValidEmails, p \in LoginPasswords, role \in Roles :
        LET r == LoginResponse(users, s,
                     [email |-> e, password |-> p, role |-> role], "none")
        IN  /\ (\A u \in users : u.email = e => ~Verifies(u, p)) =>
                   /\ r.status = 401
                   /\ r.message = "Invalid email or password"
            /\ r.status = 403 =>
                   \E u \in users :
                       u.email = e /\ Verifies(u, p) /\ u.role # role

\* A login with a wrong password that claimed a role other than the stored
\* one was answered 401.
C18_Witness ==
    /\ resp.res.op = "login"
    /\ resp.res.status = 401
    /\ resp.res.message = "Invalid email or password"
    /\ \E body \in resp.request, u \in users :
           /\ u.email = body.email
           /\ u.role # body.role
           /\ body.role \in Roles
           /\ ~Verifies(u, body.password)

\* C19: a registration whose email and username both belong to records, the
\* same one or two different ones, is answered 400 "Email already in use";
\* the username lookup is not reached and no record is created.
C19_EmailBeforeUsername ==
    [][\A s \in Sessions :
           \A body \in resp'.request :
               (/\ resp'.res.op = "register"
                /\ reg[s].pc = "idle"
                /\ body \in ValidRegisterBodies
                /\ \E u \in users : u.email = body.email
                /\ \E u \in users : u.username = body.username
                /\ RegisterStart(s, body, FALSE)) =>
                   /\ resp'.res.status = 400
                   /\ resp'.res.message = "Email already in use"
                   /\ reg'[s] = Idle
                   /\ users' = users]_vars

\* A registration whose email belongs to one record and whose username
\* belongs to another was answered 400 "Email already in use".
C19_Witness ==
    /\ resp.res.op = "register"
    /\ resp.res.status = 400
    /\ resp.res.message = "Email already in use"
    /\ \E body \in resp.request, u, v \in users :
           /\ u # v
           /\ u.email = body.email
           /\ u.username # body.username
           /\ v.username = body.username

\* The stored value has no delimiter, or an empty digest or salt part.
Malformed(stored) ==
    \/ Len(stored) < 2
    \/ stored[1] = ""
    \/ stored[2] = ""

\* C20: against a record whose stored value has no delimiter or an empty
\* digest or salt part, comparePasswords returns false without throwing for
\* every supplied password, and every login with the record's email is
\* answered 401 "Invalid email or password", not by the error handler.
C20_FailsClosed ==
    \A u \in users :
        Malformed(u.password) =>
            /\ \A p \in PasswordInputs :
                   LET cmp == comparePasswords(p, u.password)
                   IN  ~cmp.threw /\ ~cmp.ok
            /\ \A s \in Sessions, p \in LoginPasswords, role \in Roles :
                   LET r == LoginResponse(users, s, [email |-> u.email,
                                password |-> p, role |-> role], "none")
                   IN  /\ r.status = 401
                       /\ r.message = "Invalid email or password"
                       /\ r.error = "none"

\* A login with the email of a record whose stored value is malformed was
\* answered 401.
C20_Witness ==
    /\ resp.res.op = "login"
    /\ resp.res.status = 401
    /\ \E body \in resp.request, u \in users :
           u.email = body.email /\ Malformed(u.password)

\* C21: a session resolves to at most one principal, and a login answered
\* 200 binds its session to the principal of the response, whoever the
\* session was bound to before: GET /api/user then returns that principal and
\* not the earlier one.
C21_OneBinding ==
    /\ [](\A s \in Sessions : Cardinality(ReqUser(users, session, s)) <= 1)
    /\ [][\A s \in Sessions :
              (/\ resp'.res.op = "login"
               /\ resp'.sess = s
               /\ resp'.res.status = 200
               /\ LoginOn(s)) =>
                  /\ session'[s] = resp'.res.user
                  /\ WhoAmI(s)' = resp'.res.user
                  /\ WhoAmI(s) # resp'.res.user => WhoAmI(s)' # WhoAmI(s)]_vars

\* A login as one principal was answered 200 on a session whose request was
\* authenticated as another, and GET /api/user on it returns the new one.
C21_Witness ==
    /\ resp.res.op = "login"
    /\ resp.res.status = 200
    /\ resp.principal # NoUser
    /\ resp.principal # resp.res.user
    /\ WhoAmI(resp.sess) = resp.res.user

(***************************************************************************)
(* C25: a login that fails (validation error, bad credentials or role       *)
(* mismatch) leaves the session as it was: a request authenticated as       *)
(* principal A before the attempt is authenticated as A after it, and one   *)
(* that was not authenticated is still not authenticated.                   *)
(***************************************************************************)
RefusedLogin == {400, 401, 403}

C25_FailedLoginKeepsSession ==
    [][\A s \in Sessions :
          (/\ resp'.res.op = "login" /\ resp'.sess = s
           /\ resp'.res.status \in RefusedLogin
           /\ \E r \in LoginRequests :
                 r[1] \in resp'.request /\ Login(s, r[1], r[2])) =>
              /\ session'[s] = session[s]
              /\ WhoAmI(s)' = WhoAmI(s)
              /\ isAuthenticated(users, session, s)'
                    <=> isAuthenticated(users, session, s)]_vars

\* A login was refused on a session bound to a principal, and the session
\* still answers as that principal.
C25_Witness ==
    /\ resp.res.op = "login" /\ resp.res.status = 403
    /\ resp.principal # NoUser
    /\ session[resp.sess] = resp.principal
    /\ WhoAmI(resp.sess) = resp.principal

(***************************************************************************)
(* C26: a registration answered with a validation or a conflict error       *)
(* leaves the credential records and the caller's session unchanged.  The   *)
(* validation error is answered before any store access, whether or not the *)
(* store would answer, and a conflict is answered by one of the two lookups *)
(* that precede hashing and the insert, never by the insert.                *)
(***************************************************************************)
\* A step of the register handler that answers the request of session s: the
\* steps that go on to the next statement leave the handler in flight.
RegisterStepOn(s) ==
    \/ \E r \in RegisterRequests :
           r[1] \in resp'.request /\ RegisterStart(s, r[1], r[2])
    \/ \E f \in BOOLEAN : RegisterUsername(s, f)
    \/ RegisterOn(s)

C26_FailedRegisterKeepsState ==
    [][\A s \in Sessions :
          (/\ resp'.res.op = "register" /\ resp'.sess = s
           /\ reg'[s] = Idle
           /\ RegisterStepOn(s)) =>
              /\ resp'.res.status = 400 =>
                    /\ users' = users /\ nextId' = nextId
                    /\ session' = session
                    /\ reg[s].pc \in {"idle", "username"}
                    /\ resp'.res.message = "Validation error" => reg[s].pc = "idle"
              /\ \A body \in resp'.request :
                    (reg[s].pc = "idle" /\ insertUserIssues(body) # {}) =>
                        /\ resp'.res.status = 400
                        /\ resp'.res.message = "Validation error"]_vars

\* A registration on a bound session was refused for a conflict; the records
\* that made the conflict and the binding are still there.
C26_Witness ==
    /\ resp.res.op = "register" /\ resp.res.status = 400
    /\ resp.res.message = "Username already exists"
    /\ resp.principal # NoUser
    /\ session[resp.sess] = resp.principal
    /\ \A body \in resp.request : \E u \in users : u.username = body.username

(***************************************************************************)
(* C27: a session never grants access as a principal whose credential       *)
(* record no longer exists.  Once a dealer has removed a sales person, the  *)
(* removed user's session, still bound to the id, is not authenticated:     *)
(* every request on it to GET /api/user or to a gated endpoint is answered  *)
(* 401 and writes nothing, and no answer carries the removed principal.     *)
(***************************************************************************)
\* The session is bound to an id that no record carries any more.
Orphaned(s) ==
    session[s] # NoUser /\ ~\E u \in users : u.id = session[s]

\* A request on session s to GET /api/user or to an endpoint behind the gates.
GuardedRequestOn(s) ==
    \/ GetUser(s)
    \/ \E role \in Roles : Dashboard(s, role)
    \/ \E body \in StaffBodies, salt \in RequestSalts : AddSalesStaff(s, body, salt)
    \/ \E id \in 1..MaxId : DeleteSalesStaff(s, id)

C27_RemovedPrincipalLocked ==
    /\ [](\A s \in Sessions :
             Orphaned(s) =>
                 /\ ~isAuthenticated(users, session, s)
                 /\ WhoAmI(s) = NoUser
                 /\ \A role \in Roles : Gate(users, session, s, role) = 401)
    /\ [][\A s \in Sessions :
              (Orphaned(s) /\ GuardedRequestOn(s)) =>
                  /\ resp'.sess = s
                  /\ resp'.res.status = 401
                  /\ resp'.res.user = NoUser
                  /\ ~resp'.authed
                  /\ users' = users]_vars

\* The removed user's session, still bound to the removed id, asked GET
\* /api/user and was answered 401.
C27_Witness ==
    /\ resp.res.op = "user" /\ resp.res.status = 401
    /\ Orphaned(resp.sess)
    /\ nextId > session[resp.sess]

(***************************************************************************)
(* C24: when a call to the credential store or to the session store fails   *)
(* during register or login, the request ends in the error handler with a   *)
(* generic server error that carries no user; the handler makes no further  *)
(* call (nothing of the request stays in flight, and a failed store call    *)
(* leaves the records as they were), and the request binds no session.      *)
(***************************************************************************)
\* The outcome of a request that went to the error handler.
EndsInErrorHandler(s) ==
    /\ resp'.res.status = 500
    /\ resp'.res.error # "none"
    /\ resp'.res.user = NoUser /\ resp'.res.fields = {}
    /\ reg'[s] = Idle
    /\ session' = session

C24_StorageFailureIsServerError ==
    [][\A s \in Sessions :
          resp'.sess = s =>
              \A body \in resp'.request :
                  /\ (/\ resp'.res.op = "register" /\ reg[s].pc = "idle"
                       /\ <<body, TRUE>> \in RegisterRequests
                       /\ insertUserIssues(body) = {}
                       /\ RegisterStart(s, body, TRUE)) =>
                          EndsInErrorHandler(s) /\ users' = users
                  /\ (/\ reg[s].pc = "username" /\ reg[s].userData = body
                       /\ RegisterUsername(s, TRUE)) =>
                          EndsInErrorHandler(s) /\ users' = users
                  /\ (reg[s].pc = "create" /\ reg[s].userData = body) =>
                          \A salt \in RequestSalts :
                              /\ RegisterCreate(s, salt, "store") =>
                                    EndsInErrorHandler(s) /\ users' = users
                              /\ RegisterCreate(s, salt, "session") =>
                                    EndsInErrorHandler(s)
                  /\ \A f \in {"store", "session"} :
                        (/\ resp'.res.op = "login" /\ reg[s].pc = "idle"
                         /\ <<body, f>> \in LoginRequests
                         /\ loginUserIssues(body) = {}
                         /\ f = "session" =>
                               LoginResponse(users, s, body, "none").status = 200
                         /\ Login(s, body, f)) =>
                            EndsInErrorHandler(s) /\ users' = users]_vars

\* req.login failed after the record was created: the answer is the server
\* error, the record exists and the session is bound to nobody.
C24_Witness ==
    /\ resp.res.op = "register" /\ resp.res.status = 500
    /\ resp.res.error = "session"
    /\ session[resp.sess] = NoUser
    /\ \A body \in resp.request : \E u \in users : u.username = body.username

(***************************************************************************)
(* C22: the password field of every credential record is an encoded salted  *)
(* hash, a hex digest and the salt it was computed with, and never the      *)
(* plaintext, whichever path created the record: POST /api/register, POST   *)
(* /api/dealer/sales-staff or the seed script.                              *)
(***************************************************************************)
\* stored is digest "." salt for some password, and is not that password.
EncodedHash(stored) ==
    /\ Len(stored) = 2
    /\ ~Falsy(Part(stored, 1)) /\ ~Falsy(Part(stored, 2))
    /\ \E p \in PasswordInputs :
          /\ Part(stored, 1) = ToHex(Scrypt(p, Part(stored, 2)))
          /\ Part(stored, 1) # p
    /\ \A p \in PasswordInputs : stored # <<p>>

C22_PasswordStoredHashed ==
    \A u \in users : EncodedHash(u.password)

\* Records of the three paths side by side: one of the seed script, one
\* registered and one added by the dealer.
C22_Witness ==
    /\ \E u \in users : u.username = SeedAccounts[1].username
    /\ \E u \in users : u.dealerId # NoUser /\ u.role = "sales"
    /\ \E u \in users : u.username = "alice" /\ u.dealerId = NoUser
    /\ \A u \in users : comparePasswords("password123", u.password).ok

(***************************************************************************)
(* C23: the role of every credential record is one of admin, dealer and     *)
(* sales.  A registration whose role is any other value is answered 400     *)
(* and creates no record, and a record created by POST                      *)
(* /api/dealer/sales-staff has the role sales and the caller as its dealer, *)
(* whatever role the body carries.                                          *)
(***************************************************************************)
C23_RoleInClosedSet ==
    /\ [](\A u \in users : u.role \in Roles)
    /\ [][\A s \in Sessions :
              resp'.sess = s =>
                  \A body \in resp'.request :
                      /\ (/\ resp'.res.op = "addStaff" /\ resp'.res.status = 201
                           /\ \E salt \in RequestSalts : AddSalesStaff(s, body, salt)) =>
                              /\ users' # users
                              /\ \A u \in users' \ users :
                                    /\ u.role = "sales"
                                    /\ u.dealerId = session[s]
                                    /\ u.username = body.username
                      /\ (/\ resp'.res.op = "register" /\ reg[s].pc = "idle"
                           /\ body \in SeedRegisterBodies
                           /\ body.role \notin Roles
                           /\ RegisterStart(s, body, FALSE)) =>
                              /\ resp'.res.status = 400
                              /\ "role" \in resp'.res.issues
                              /\ users' = users
                              /\ reg'[s] = Idle]_vars

\* The dealer's request carried the role admin and the record it created
\* has the role sales.
C23_Witness ==
    /\ resp.res.op = "addStaff" /\ resp.res.status = 201
    /\ \A body \in resp.request :
          /\ body.role = "admin"
          /\ \E u \in users :
                u.username = body.username /\ u.role = "sales" /\ u.id = resp.res.user
    /\ \E u \in users : u.role = "admin"

(***************************************************************************)
(* C29 as claimed: a dealer never has more than 5 sales persons, after any  *)
(* sequence or interleaving of requests that add and remove sales staff.    *)
(***************************************************************************)
C29_AtMostFiveSalesPersons ==
    \A d \in users :
        d.role = "dealer" =>
            Cardinality(SalesStaffOf(users, d.id)) <= MaxSalesStaff

(***************************************************************************)
(* C28: ownership isolation.  A sales principal reads, updates or deletes   *)
(* a customer, and reads or updates an order, only when the row's           *)
(* salesPersonId is the principal's own id: a request for a row of another  *)
(* sales person is answered 404 and leaves the row unchanged, no step       *)
(* creates, changes or removes a row of anyone but the caller, and a        *)
(* customer created through POST /api/customers gets the caller's id as     *)
(* salesPersonId whatever the body says.                                    *)
(***************************************************************************)
\* The row of id exists and belongs to somebody else.
Foreign(rows, id, me) == \E r \in rows : r.id = id /\ r.salesPersonId # me

\* The request is refused as if the row did not exist, and nothing changes.
RefusedAsAbsent(s) ==
    /\ resp'.res.status = 404
    /\ resp'.res.user = NoUser
    /\ customers' = customers /\ orders' = orders
    /\ job'[s] = Idle

C30_OneOrderPerCar ==
    \A car \in cars : Cardinality({o \in orders : o.carId = car.id}) <= 1

====
